---- MODULE Spec2Model ----
(***************************************************************************)
(* Model of disney-api-test.js: runTests and its five checks, run against  *)
(* an uncontrolled remote endpoint.  A step of the model is one            *)
(* continuation of the JavaScript program between two awaits.  The remote  *)
(* endpoint is the environment: it settles each pending fetch() and each   *)
(* pending response.json() with any outcome drawn from the sets below.     *)
(*                                                                         *)
(* Strings built by the program are kept as sequences of their parts (the  *)
(* literal pieces of a template and the interpolated values), so that      *)
(* "the message contains s" is membership of a part.                       *)
(***************************************************************************)
EXTENDS Integers, Sequences, FiniteSets, TLC

VARIABLES
  pc,         \* where the program is suspended
  test,       \* number of the check being executed (0 before the first)
  response,   \* the Response the current check's fetch resolved with
  body,       \* the value the current check's response.json() resolved with
  settled,    \* how the current check's promise settled
  raised,     \* the error that ended the current check's try block
  thrown,     \* the error the current check's promise was rejected with
  caught,     \* the error bound in runTests' catch clause
  console,    \* the lines written to the console, in order
  requests,   \* the fetch() calls issued so far, in order
  inflight,   \* the number of fetch() calls not yet settled
  invoked,    \* the checks invoked so far, in order
  passed,     \* the checks whose promise was fulfilled
  result      \* the state of the promise returned by runTests()

vars == <<pc, test, response, body, settled, raised, thrown, caught, console,
          requests, inflight, invoked, passed, result>>

---------------------------------------------------------------------------
(* Bounds of the model. *)

\* longest array of arbitrary elements the endpoint returns in `data`
MaxLen == 2

---------------------------------------------------------------------------
(* Program constants. *)

API_URL == "https://api.disneyapi.dev/characters"

defaultPageSize == 50

\* the checks, in the order runTests awaits them
Checks == <<"testStatusCode", "testDataStructure", "testCharactersHaveNames",
            "testSpecificCharacterExists", "testPagination">>

NumTests == Len(Checks)

\* `${API_URL}?name=Mickey Mouse`
specificCharacterUrl == <<API_URL, "?name=Mickey Mouse">>

\* the URL each check passes to fetch()
FetchUrl(k) == IF Checks[k] = "testSpecificCharacterExists"
               THEN specificCharacterUrl ELSE <<API_URL>>

---------------------------------------------------------------------------
(* JavaScript values. *)

\* values a property may hold: [t |-> type tag, v |-> text of the value]
JSUndefined == [t |-> "undefined", v |-> ""]
JSNull == [t |-> "null", v |-> ""]
JSStr(s) == [t |-> "str", v |-> s]
JSNum(s) == [t |-> "num", v |-> s]

\* ToBoolean
Truthy(x) ==
  \/ x.t = "str" /\ x.v # ""
  \/ x.t = "num" /\ x.v # "0"

\* x === "..." for a string literal
StrictEqualsStr(x, s) == x.t = "str" /\ x.v = s

---------------------------------------------------------------------------
(* What the endpoint may answer. *)

\* HTTP statuses of a response
Statuses == {200, 201, 404, 500}

\* values of a character's `name` property (JSUndefined: no such property)
NameVals == {JSUndefined, JSNull, JSStr(""), JSNum("0"), JSStr("Donald Duck"),
             JSStr("Mickey Mouse"), JSStr("mickey mouse"),
             JSStr("Mickey Mouse "), JSStr("Mickey")}

\* elements of a `data` array: objects with a `name`, and the JSON value null
ObjElement(n) == [t |-> "obj", name |-> n]
NullElement == [t |-> "null", name |-> JSUndefined]
Elements == {ObjElement(n) : n \in NameVals} \cup {NullElement}

\* arrays of at most MaxLen arbitrary elements
ShortArrays == UNION {[1..n -> Elements] : n \in 0..MaxLen}

\* arrays of one repeated element around the page size (and the size 10)
PageLengths == {10, defaultPageSize - 1, defaultPageSize, defaultPageSize + 1}
PageFill == {ObjElement(JSStr("Donald Duck")), ObjElement(JSUndefined),
             NullElement}
PageArrays == {[i \in 1..n |-> e] : n \in PageLengths, e \in PageFill}

\* values of the body's `data` property: [t |-> type tag, v |-> elements]
DataArr(a) == [t |-> "arr", v |-> a]
DataUndefined == [t |-> "undefined", v |-> <<>>]
DataNull == [t |-> "null", v |-> <<>>]
DataZero == [t |-> "zero", v |-> <<>>]
DataOne == [t |-> "num", v |-> <<>>]
DataEmptyStr == [t |-> "str", v |-> <<>>]
DataStr == [t |-> "str", v |-> <<"x">>]
DataObj == [t |-> "obj", v |-> <<>>]
NonArrayData == {DataUndefined, DataNull, DataZero, DataOne, DataEmptyStr,
                 DataStr, DataObj}
DataVals == NonArrayData \cup {DataArr(a) : a \in ShortArrays \cup PageArrays}

\* the pagination properties of a body
MetaVals ==
  { [count |-> JSUndefined, totalPages |-> JSUndefined,
     nextPage |-> JSUndefined, previousPage |-> JSUndefined],
    [count |-> JSNum("50"), totalPages |-> JSNum("149"),
     nextPage |-> JSStr("https://api.disneyapi.dev/characters?page=2"),
     previousPage |-> JSNull],
    [count |-> JSNum("0"), totalPages |-> JSNum("0"),
     nextPage |-> JSNull, previousPage |-> JSNull] }

\* values response.json() resolves with: the JSON value null, or an object
NullBody == [t |-> "null", data |-> DataUndefined,
             meta |-> CHOOSE m \in MetaVals : m.count = JSUndefined]
ObjBody(d, m) == [t |-> "obj", data |-> d, meta |-> m]
Bodies == {NullBody} \cup {ObjBody(d, m) : d \in DataVals, m \in MetaVals}

\* errors: [name |-> constructor, message |-> parts of the message]
Err(n, m) == [name |-> n, message |-> m]
NoError == Err("", <<>>)

\* errors fetch() rejects with
TransportErrors == {Err("TypeError", <<"fetch failed">>),
                    Err("AbortError", <<"This operation was aborted">>)}

\* errors response.json() rejects with
ParseErrors == {Err("SyntaxError", <<"Unexpected token < in JSON at position 0">>),
                Err("TypeError", <<"terminated">>)}

\* ToBoolean of a `data` value
DataTruthy(d) == \/ d.t \in {"num", "obj", "arr"}
                 \/ d.t = "str" /\ d.v # <<>>

---------------------------------------------------------------------------
(* Console lines: [stream |-> log or error, args |-> the arguments]. *)

Line(s, a) == [stream |-> s, args |-> a]

\* the label each check's catch block prints before error.message
FailedLabel(k) ==
  IF k \in {4, 5} THEN <<"Test " \o ToString(k) \o ":", " FAILED.">>
                  ELSE <<"Test " \o ToString(k) \o ":", " FAILED">>

RunningLine == Line("log", << <<"--- Running Disney API Tests ---">> >>)
SuccessLine == Line("log", << <<"\nAll tests completed successfully">> >>)
TestsFailedLine(error) == Line("error", << <<"\nTests failed!">>, error.message >>)

\* the result of a try block: the lines it logged and the error it threw
Returned(lines) == [lines |-> lines, err |-> NoError]
Threw(lines, e) == [lines |-> lines, err |-> e]

---------------------------------------------------------------------------
(* The try blocks of the five checks, from the point where their last     *)
(* await has resolved.                                                    *)

\* The message of line 51 ends with the character U+274C, written here as
\* the part " (cross mark)".

\* variant: the check accepts every 2xx status (response.ok)
testStatusCode_ok(resp) ==
  IF resp.status \in 200..299
  THEN Returned(<< Line("log", << <<"Test 1:", " Status code is 200">> >>) >>)
  ELSE Threw(<<>>, Err("Error", <<"Expected status code 200", ", but got ",
                                  ToString(resp.status), " (cross mark)">>))

\* testStatusCode, after fetch() resolved with `resp`
testStatusCode(resp) ==
  IF resp.status = 200
  THEN Returned(<< Line("log", << <<"Test 1:", " Status code is 200">> >>) >>)
  ELSE Threw(<<>>, Err("Error", <<"Expected status code 200", ", but got ",
                                  ToString(resp.status), " (cross mark)">>))

\* variant: the check does not look at the length of the array
testDataStructure_noLength(b) ==
  IF b.t = "null"
  THEN Threw(<<>>, Err("TypeError",
                       <<"Cannot read properties of null (reading 'data')">>))
  ELSE IF DataTruthy(b.data) /\ b.data.t = "arr"
  THEN Returned(<< Line("log", << <<"Test 2:", " Response 'data' property is an array">> >>),
                   Line("log", << <<"Test 2:", " Data array is not empty">> >>) >>)
  ELSE Threw(<<>>, Err("Error",
                       <<"Response body does not have a valid 'data' array.">>))

\* testDataStructure, after response.json() resolved with `b`
testDataStructure(b) ==
  IF b.t = "null"
  THEN Threw(<<>>, Err("TypeError",
                       <<"Cannot read properties of null (reading 'data')">>))
  ELSE IF DataTruthy(b.data) /\ b.data.t = "arr"
  THEN LET isArray ==
             Line("log", << <<"Test 2:", " Response 'data' property is an array">> >>)
       IN IF Len(b.data.v) > 0
          THEN Returned(<< isArray,
                           Line("log", << <<"Test 2:", " Data array is not empty">> >>) >>)
          ELSE Threw(<< isArray >>, Err("Error", <<"Data array is empty.">>))
  ELSE Threw(<<>>, Err("Error",
                       <<"Response body does not have a valid 'data' array.">>))

\* const { data, ... } = await response.json(), when it throws
DestructureError ==
  Err("TypeError", <<"Cannot destructure property 'data' of ",
                     "'(intermediate value)'", " as it is null.">>)

\* reading property `prop` of `data` when data is undefined or null
PropertyOfNullish(d, prop) ==
  Err("TypeError", <<"Cannot read properties of ", d.t, " (reading '", prop, "')">>)

\* character.name on the JSON value null
NameOfNull ==
  Err("TypeError", <<"Cannot read properties of null (reading 'name')">>)

\* data.every(character => character.name), from index i on:
\* "true", "false", or "throw" when the callback throws
RECURSIVE Every(_, _)
Every(a, i) ==
  IF i > Len(a) THEN "true"
  ELSE IF a[i].t = "null" THEN "throw"
  ELSE IF ~Truthy(a[i].name) THEN "false"
  ELSE Every(a, i + 1)

\* data.some(character => character.name === "Mickey Mouse"), from index i on
RECURSIVE Some(_, _)
Some(a, i) ==
  IF i > Len(a) THEN "false"
  ELSE IF a[i].t = "null" THEN "throw"
  ELSE IF StrictEqualsStr(a[i].name, "Mickey Mouse") THEN "true"
  ELSE Some(a, i + 1)

\* testCharactersHaveNames, after response.json() resolved with `b`
testCharactersHaveNames(b) ==
  IF b.t = "null" THEN Threw(<<>>, DestructureError)
  ELSE IF b.data.t \in {"undefined", "null"}
  THEN Threw(<<>>, PropertyOfNullish(b.data, "every"))
  ELSE IF b.data.t # "arr"
  THEN Threw(<<>>, Err("TypeError", <<"data.every is not a function">>))
  ELSE LET allHaveNames == Every(b.data.v, 1)
       IN CASE allHaveNames = "throw" -> Threw(<<>>, NameOfNull)
            [] allHaveNames = "true" ->
                 Returned(<< Line("log",
                     << <<"Test 3:", " All characters have a 'name' property">> >>) >>)
            [] OTHER ->
                 Threw(<<>>, Err("Error",
                     <<"Some characters are missing a 'name' property.">>))

\* testSpecificCharacterExists, after response.json() resolved with `b`
testSpecificCharacterExists(b) ==
  IF b.t = "null" THEN Threw(<<>>, DestructureError)
  ELSE IF b.data.t \in {"undefined", "null"}
  THEN Threw(<<>>, PropertyOfNullish(b.data, "some"))
  ELSE IF b.data.t # "arr"
  THEN Threw(<<>>, Err("TypeError", <<"data.some is not a function">>))
  ELSE LET found == Some(b.data.v, 1)
       IN CASE found = "throw" -> Threw(<<>>, NameOfNull)
            [] found = "true" ->
                 Returned(<< Line("log",
                     << <<"Test 4:", " 'Mickey Mouse' character found.">> >>) >>)
            [] OTHER ->
                 Threw(<<>>, Err("Error", <<"'Mickey Mouse' character not found.">>))

\* whether data.length is a number (strings and arrays), else it is undefined
HasLength(d) == d.t \in {"str", "arr"}

\* the text of data.length in a template
LengthText(d) == IF HasLength(d) THEN ToString(Len(d.v)) ELSE "undefined"

\* variant: the check accepts a page of at least the default size
testPagination_atLeast(b) ==
  IF b.t = "null" THEN Threw(<<>>, DestructureError)
  ELSE IF b.data.t \in {"undefined", "null"}
  THEN Threw(<<>>, PropertyOfNullish(b.data, "length"))
  ELSE IF HasLength(b.data) /\ Len(b.data.v) >= defaultPageSize
  THEN Returned(<< Line("log",
           << <<"Test 5:", " Pagination returns the correct number of items per page (",
                ToString(defaultPageSize), ").">> >>) >>)
  ELSE Threw(<<>>, Err("Error", <<"Expected ", ToString(defaultPageSize),
                                  " items per page, but got ", LengthText(b.data)>>))

\* variant: the check logs its pass line before it compares the length
testPagination_logFirst(b) ==
  IF b.t = "null" THEN Threw(<<>>, DestructureError)
  ELSE IF b.data.t \in {"undefined", "null"}
  THEN Threw(<<>>, PropertyOfNullish(b.data, "length"))
  ELSE LET passLine == Line("log",
             << <<"Test 5:", " Pagination returns the correct number of items per page (",
                  ToString(defaultPageSize), ").">> >>)
       IN IF HasLength(b.data) /\ Len(b.data.v) = defaultPageSize
          THEN Returned(<< passLine >>)
          ELSE Threw(<< passLine >>,
                     Err("Error", <<"Expected ", ToString(defaultPageSize),
                                    " items per page, but got ", LengthText(b.data)>>))

\* testPagination, after response.json() resolved with `b`
testPagination(b) ==
  IF b.t = "null" THEN Threw(<<>>, DestructureError)
  ELSE IF b.data.t \in {"undefined", "null"}
  THEN Threw(<<>>, PropertyOfNullish(b.data, "length"))
  ELSE IF HasLength(b.data) /\ Len(b.data.v) = defaultPageSize
  THEN Returned(<< Line("log",
           << <<"Test 5:", " Pagination returns the correct number of items per page (",
                ToString(defaultPageSize), ").">> >>) >>)
  ELSE Threw(<<>>, Err("Error", <<"Expected ", ToString(defaultPageSize),
                                  " items per page, but got ", LengthText(b.data)>>))

\* the try block of check k once response.json() has resolved with `b`
AfterJson(k, b) ==
  CASE Checks[k] = "testDataStructure" -> testDataStructure(b)
    [] Checks[k] = "testCharactersHaveNames" -> testCharactersHaveNames(b)
    [] Checks[k] = "testSpecificCharacterExists" -> testSpecificCharacterExists(b)
    [] OTHER -> testPagination(b)

\* variant: the catch block throws a new error instead of the one it caught
CheckCatch_wrap(k, error) ==
  [lines |-> << Line("error", << FailedLabel(k), error.message >>) >>,
   rethrown |-> Err("Error", <<"Test ", ToString(k), " failed">>)]

\* the catch block of check k: one console.error, then `throw error`
CheckCatch(k, error) ==
  [lines |-> << Line("error", << FailedLabel(k), error.message >>) >>,
   rethrown |-> error]

---------------------------------------------------------------------------
(* The program. *)

NoResponse == [status |-> 0]
NoBody == [t |-> "none", data |-> DataUndefined,
           meta |-> CHOOSE m \in MetaVals : m.count = JSUndefined]

Init ==
  /\ pc = "start"
  /\ test = 0
  /\ response = NoResponse
  /\ body = NoBody
  /\ settled = "none"
  /\ raised = NoError
  /\ thrown = NoError
  /\ caught = NoError
  /\ console = <<>>
  /\ requests = <<>>
  /\ inflight = 0
  /\ invoked = <<>>
  /\ passed = {}
  /\ result = "pending"

\* runTests calls check k, which runs up to its `await fetch(...)`
Invoke(k) ==
  /\ test' = k
  /\ invoked' = Append(invoked, k)
  /\ requests' = Append(requests, [test |-> k, url |-> FetchUrl(k)])
  /\ inflight' = inflight + 1
  /\ response' = NoResponse
  /\ body' = NoBody
  /\ settled' = "pending"
  /\ raised' = NoError
  /\ thrown' = NoError
  /\ pc' = "fetch"

\* the current check leaves its try block with `outcome`: it returns, or its
\* catch block logs and rethrows; either way its promise settles
Settle(outcome) ==
  IF outcome.err = NoError
  THEN /\ console' = console \o outcome.lines
       /\ settled' = "fulfilled"
       /\ raised' = NoError
       /\ thrown' = NoError
       /\ passed' = passed \cup {test}
       /\ pc' = "resume"
  ELSE LET c == CheckCatch(test, outcome.err)
       IN /\ console' = console \o outcome.lines \o c.lines
          /\ settled' = "rejected"
          /\ raised' = outcome.err
          /\ thrown' = c.rethrown
          /\ passed' = passed
          /\ pc' = "resume"

\* runTests() is called: it logs the banner and calls the first check
RunTests ==
  /\ pc = "start"
  /\ console' = Append(console, RunningLine)
  /\ Invoke(1)
  /\ UNCHANGED <<caught, passed, result>>

\* the pending fetch() resolves with a response
FetchFulfilled ==
  /\ pc = "fetch"
  /\ \E s \in Statuses :
       /\ response' = [status |-> s]
       /\ inflight' = inflight - 1
       /\ IF Checks[test] = "testStatusCode"
          THEN Settle(testStatusCode([status |-> s]))
          ELSE /\ pc' = "json"
               /\ UNCHANGED <<settled, raised, thrown, console, passed>>
  /\ UNCHANGED <<test, body, caught, requests, invoked, result>>

\* the pending fetch() rejects
FetchRejected ==
  /\ pc = "fetch"
  /\ \E e \in TransportErrors : Settle(Threw(<<>>, e))
  /\ inflight' = inflight - 1
  /\ UNCHANGED <<test, response, body, caught, requests, invoked, result>>

\* the pending response.json() resolves with the parsed body
JsonFulfilled ==
  /\ pc = "json"
  /\ \E b \in Bodies :
       /\ body' = b
       /\ Settle(AfterJson(test, b))
  /\ UNCHANGED <<test, response, caught, requests, inflight, invoked, result>>

\* the pending response.json() rejects
JsonRejected ==
  /\ pc = "json"
  /\ \E e \in ParseErrors : Settle(Threw(<<>>, e))
  /\ UNCHANGED <<test, response, body, caught, requests, inflight, invoked, result>>

\* variant: runTests goes on to the next check whatever the last one did
NextCheck_noHalt ==
  /\ pc = "resume"
  /\ test < NumTests
  /\ Invoke(test + 1)
  /\ UNCHANGED <<caught, console, passed, result>>

\* runTests resumes after a fulfilled check that is not the last: next check
NextCheck ==
  /\ pc = "resume"
  /\ settled = "fulfilled"
  /\ test < NumTests
  /\ Invoke(test + 1)
  /\ UNCHANGED <<caught, console, passed, result>>

\* runTests resumes after the last check fulfilled: success summary
AllCompleted ==
  /\ pc = "resume"
  /\ settled = "fulfilled"
  /\ test = NumTests
  /\ console' = Append(console, SuccessLine)
  /\ result' = "fulfilled"
  /\ pc' = "done"
  /\ UNCHANGED <<test, response, body, settled, raised, thrown, caught, requests,
                 inflight, invoked, passed>>

\* variant: the catch clause logs and throws the error again
RunnerCatch_rethrow ==
  /\ pc = "resume"
  /\ settled = "rejected"
  /\ caught' = thrown
  /\ console' = Append(console, TestsFailedLine(thrown))
  /\ result' = "rejected"
  /\ pc' = "done"
  /\ UNCHANGED <<test, response, body, settled, raised, thrown, requests, inflight,
                 invoked, passed>>

\* variant: the catch clause swallows the error without a summary
RunnerCatch_silent ==
  /\ pc = "resume"
  /\ settled = "rejected"
  /\ caught' = thrown
  /\ result' = "fulfilled"
  /\ pc' = "done"
  /\ UNCHANGED <<test, response, body, settled, raised, thrown, console, requests,
                 inflight, invoked, passed>>

\* runTests resumes after a rejected check: its catch clause
RunnerCatch ==
  /\ pc = "resume"
  /\ settled = "rejected"
  /\ caught' = thrown
  /\ console' = Append(console, TestsFailedLine(thrown))
  /\ result' = "fulfilled"
  /\ pc' = "done"
  /\ UNCHANGED <<test, response, body, settled, raised, thrown, requests, inflight,
                 invoked, passed>>

Next ==
  \/ RunTests
  \/ FetchFulfilled
  \/ FetchRejected
  \/ JsonFulfilled
  \/ JsonRejected
  \/ NextCheck
  \/ AllCompleted
  \/ RunnerCatch

Spec == Init /\ [][Next]_vars

\* every pending fetch() and response.json() eventually settles, and the
\* event loop runs every continuation that is ready
FairSpec == Spec /\ WF_vars(Next)

---------------------------------------------------------------------------
(* Vocabulary of the properties. *)

\* the console lines that satisfy P
LinesWhere(P(_)) == {i \in DOMAIN console : P(console[i])}

\* a line whose first argument starts "Test k:"
IsTestLine(l, k) == l.args[1][1] = "Test " \o ToString(k) \o ":"

\* a "Test k: FAILED" line
IsFailedLine(l, k) ==
  /\ IsTestLine(l, k)
  /\ Len(l.args[1]) >= 2
  /\ l.args[1][2] \in {" FAILED", " FAILED."}

IsAnyFailedLine(l) == \E k \in 1..NumTests : IsFailedLine(l, k)

\* a "Test k:" line that is not a FAILED line
IsPassLine(l, k) == IsTestLine(l, k) /\ ~IsFailedLine(l, k)

IsTestsFailedLine(l) == l.args[1] = <<"\nTests failed!">>

IsSuccessLine(l) == l.args[1] = <<"\nAll tests completed successfully">>

\* the run has ended with a failed check / with all checks passed
RunFailed == pc = "done" /\ settled = "rejected"
RunSucceeded == pc = "done" /\ settled = "fulfilled"

\* the current check's promise has settled
CheckSettled == settled \in {"fulfilled", "rejected"}

\* the current check is check k, it parsed an object body whose `data` is an
\* array, and it has settled
SettledOnArray(k) ==
  /\ test = k
  /\ CheckSettled
  /\ body.t = "obj"
  /\ body.data.t = "arr"

---------------------------------------------------------------------------
(* C1: runTests invokes the checks one at a time in the fixed order Status *)
(* Code, Data Shape, Name Presence, Specific Record, Pagination; a check   *)
(* starts only after all earlier ones have passed; at most one request is  *)
(* in flight; a run whose first failing check is j issues exactly j        *)
(* requests and a run without failure exactly 5, one per check.            *)
C1_SequentialHalt ==
  /\ inflight \in {0, 1}
  /\ Len(invoked) <= 5
  /\ [i \in 1..Len(invoked) |-> Checks[invoked[i]]]
       = SubSeq(<<"testStatusCode", "testDataStructure", "testCharactersHaveNames",
                  "testSpecificCharacterExists", "testPagination">>,
                1, Len(invoked))
  /\ \A i \in 1..Len(invoked) : \A j \in 1..(i - 1) : invoked[j] \in passed
  /\ [i \in 1..Len(requests) |-> requests[i].test] = invoked
  /\ RunFailed => /\ Len(requests) = test
                  /\ test \notin passed
                  /\ passed = 1..(test - 1)
  /\ RunSucceeded => Len(requests) = 5 /\ passed = 1..5

\* a run that stopped at a failing third check after three requests
C1_Witness ==
  /\ RunFailed
  /\ test = 3
  /\ Len(requests) = 3
  /\ invoked = <<1, 2, 3>>

(* C2: a failing check, whatever the kind of its error, logs exactly one   *)
(* "Test k: FAILED" line with the error's message and rethrows the same    *)
(* error; runTests catches it and logs exactly one "Tests failed!" line    *)
(* with the same message; a failing run holds exactly one FAILED line and  *)
(* one "Tests failed!" line, both for the first failing check, and no      *)
(* check is run twice.                                                     *)
C2_Propagation ==
  /\ settled = "rejected" =>
       /\ raised # NoError
       /\ thrown = raised
       /\ Cardinality(LinesWhere(IsAnyFailedLine)) = 1
       /\ \A i \in LinesWhere(IsAnyFailedLine) :
            /\ IsFailedLine(console[i], test)
            /\ console[i].args = <<FailedLabel(test), raised.message>>
  /\ settled # "rejected" => LinesWhere(IsAnyFailedLine) = {}
  /\ RunFailed =>
       /\ caught = raised
       /\ Cardinality(LinesWhere(IsTestsFailedLine)) = 1
       /\ console[Len(console)] = Line("error", << <<"\nTests failed!">>, raised.message >>)
       /\ IsFailedLine(console[Len(console) - 1], test)
       /\ test = Len(invoked)
  /\ ~RunFailed => LinesWhere(IsTestsFailedLine) = {}
  /\ \A i, j \in DOMAIN requests : requests[i].test = requests[j].test => i = j

\* a run that failed in check 3 on a JSON parse error
C2_Witness ==
  /\ RunFailed
  /\ test = 3
  /\ raised \in ParseErrors
  /\ caught = raised

(* C10: runTests never rejects: whatever error a check raises is caught in *)
(* runTests, and the promise it returns is fulfilled in failed and         *)
(* successful runs alike.                                                  *)
C10_NeverPropagates ==
  /\ result # "rejected"
  /\ pc = "done" => result = "fulfilled"
  /\ RunFailed => caught = thrown /\ caught # NoError

\* a run that failed on a transport error and still fulfilled its promise
C10_Witness ==
  /\ RunFailed
  /\ raised \in TransportErrors
  /\ result = "fulfilled"

(* C3: when every request settles, every run ends having logged exactly    *)
(* one of the two summaries: the success summary if and only if all five   *)
(* checks passed, "Tests failed!" if and only if a check failed; never     *)
(* both, and the success summary never before check 5 has passed.          *)
C3_SummaryState ==
  LET success == LinesWhere(IsSuccessLine)
      failure == LinesWhere(IsTestsFailedLine)
  IN /\ Cardinality(success) + Cardinality(failure) <= 1
     /\ pc = "done" => Cardinality(success) + Cardinality(failure) = 1
     /\ success # {} => passed = 1..5
     /\ failure # {} => settled = "rejected" /\ passed # 1..5
     /\ pc = "done" /\ passed = 1..5 => success # {}
     /\ pc = "done" /\ settled = "rejected" => failure # {}

C3_OneSummary == <>(pc = "done") /\ []C3_SummaryState

\* a run that ended with the success summary as its last line
C3_Witness ==
  /\ RunSucceeded
  /\ IsSuccessLine(console[Len(console)])
  /\ passed = 1..5

(* C4 as stated: the Data Shape check succeeds if and only if `data` is a  *)
(* non-empty array, and the three failure cases (data missing, data not an *)
(* array, data an empty array) raise pairwise distinct messages.           *)
ShapeCase(b) ==
  CASE b.data.t = "undefined" -> "missing"
    [] b.data.t # "arr" -> "notArray"
    [] Len(b.data.v) = 0 -> "empty"
    [] OTHER -> "ok"

C4_ThreeMessages ==
  (test = 2 /\ CheckSettled /\ body.t = "obj") =>
    /\ settled = "fulfilled" <=> ShapeCase(body) = "ok"
    /\ \A b \in Bodies :
         (b.t = "obj" /\ ShapeCase(b) \notin {"ok", ShapeCase(body)}
            /\ ShapeCase(body) # "ok")
         => testDataStructure(b).err.message # raised.message

(* C4 amended: the Data Shape check succeeds if and only if `data` is a    *)
(* non-empty array; a missing `data` and a `data` that is not an array     *)
(* raise the same message, "Response body does not have a valid 'data'     *)
(* array.", and an empty array raises the different message "Data array    *)
(* is empty."; a body that is null fails as well.                          *)
C4_TwoMessages ==
  (test = 2 /\ CheckSettled /\ body.t # "none") =>
    /\ settled = "fulfilled" <=> (body.t = "obj" /\ ShapeCase(body) = "ok")
    /\ (body.t = "obj" /\ ShapeCase(body) = "empty")
         => raised = Err("Error", <<"Data array is empty.">>)
    /\ (body.t = "obj" /\ ShapeCase(body) \in {"missing", "notArray"})
         => raised = Err("Error", <<"Response body does not have a valid 'data' array.">>)

\* check 2 failed on a `data` that is present but is not an array
C4_Witness ==
  /\ test = 2
  /\ settled = "rejected"
  /\ body.t = "obj"
  /\ body.data = DataObj

(* C5: the Status Code check succeeds if and only if the status is 200,    *)
(* without reading the body; for any other status s its error message      *)
(* contains "Expected status code 200" and s; when fetch itself fails the  *)
(* check fails with the transport error's message.                         *)
C5_StatusCode ==
  (test = 1 /\ CheckSettled) =>
    /\ body = NoBody
    /\ response # NoResponse =>
         /\ settled = "fulfilled" <=> response.status = 200
         /\ response.status # 200 =>
              /\ \E i \in DOMAIN raised.message :
                   raised.message[i] = "Expected status code 200"
              /\ \E i \in DOMAIN raised.message :
                   raised.message[i] = ToString(response.status)
    /\ response = NoResponse =>
         /\ settled = "rejected"
         /\ raised \in TransportErrors
         /\ thrown = raised
         /\ \E i \in DOMAIN console :
              console[i].args = <<FailedLabel(1), raised.message>>

\* check 1 failed on a 404
C5_Witness ==
  /\ test = 1
  /\ settled = "rejected"
  /\ response.status = 404

(* C6: the Name Field Presence check succeeds if and only if every element *)
(* of the data array has a truthy name, for every data array; one element  *)
(* without a truthy name fails the check with the generic message.         *)
C6_NamePresence ==
  SettledOnArray(3) =>
    LET a == body.data.v
        nameless == {i \in DOMAIN a : ~(a[i].t = "obj" /\ Truthy(a[i].name))}
    IN /\ settled = "fulfilled" <=> nameless = {}
       /\ nameless # {} =>
            raised = Err("Error", <<"Some characters are missing a 'name' property.">>)

\* the arrays on which C6 does hold: those without a null element
C6_OnObjects ==
  (SettledOnArray(3) /\ \A i \in DOMAIN body.data.v : body.data.v[i].t = "obj") =>
    LET a == body.data.v
        nameless == {i \in DOMAIN a : ~Truthy(a[i].name)}
    IN /\ settled = "fulfilled" <=> nameless = {}
       /\ nameless # {} =>
            raised = Err("Error", <<"Some characters are missing a 'name' property.">>)

(* C7: the Specific Record check requests the base URL with the query      *)
(* name=Mickey Mouse and succeeds if and only if some element of the data  *)
(* array has a name exactly equal to "Mickey Mouse"; for every other data  *)
(* array it fails with the not-found message.                              *)
C7_SpecificRecord ==
  SettledOnArray(4) =>
    LET a == body.data.v
        found == \E i \in DOMAIN a :
                   a[i].t = "obj" /\ a[i].name = JSStr("Mickey Mouse")
    IN /\ requests[4].url = <<"https://api.disneyapi.dev/characters",
                              "?name=Mickey Mouse">>
       /\ settled = "fulfilled" <=> found
       /\ ~found => raised = Err("Error", <<"'Mickey Mouse' character not found.">>)

\* the arrays on which C7 does hold: those without a null element
C7_OnObjects ==
  (SettledOnArray(4) /\ \A i \in DOMAIN body.data.v : body.data.v[i].t = "obj") =>
    LET a == body.data.v
        found == \E i \in DOMAIN a : a[i].name = JSStr("Mickey Mouse")
    IN /\ settled = "fulfilled" <=> found
       /\ ~found => raised = Err("Error", <<"'Mickey Mouse' character not found.">>)

C9_PassLines ==
  \A k \in 1..NumTests :
    LET pass == LinesWhere(LAMBDA l : IsPassLine(l, k))
        fail == LinesWhere(LAMBDA l : IsFailedLine(l, k))
    IN /\ pass # {} => k \in passed
       /\ k \in passed => pass # {}
       /\ ~(pass # {} /\ fail # {})

(* C9 amended: apart from the line "Test 2: Response 'data' property is an *)
(* array", a "Test k:" line that is not a FAILED line is logged if and     *)
(* only if check k completes without an error, and a check that passes     *)
(* logs no FAILED line; check 2 logs the excepted line if and only if it   *)
(* passes or fails on an empty data array, and then it precedes the        *)
(* FAILED line.                                                            *)
IsArrayLine(l) ==
  l = Line("log", << <<"Test 2:", " Response 'data' property is an array">> >>)

C9_PassLinesButArray ==
  /\ \A k \in 1..NumTests :
       LET pass == LinesWhere(LAMBDA l : IsPassLine(l, k) /\ ~IsArrayLine(l))
           fail == LinesWhere(LAMBDA l : IsFailedLine(l, k))
       IN /\ pass # {} <=> k \in passed
          /\ k \in passed => fail = {}
  /\ LinesWhere(IsArrayLine) # {} <=>
       \/ 2 \in passed
       \/ /\ test = 2
          /\ settled = "rejected"
          /\ body.data = DataArr(<<>>)
          /\ raised = Err("Error", <<"Data array is empty.">>)
  /\ \A i \in LinesWhere(IsArrayLine) :
       \A j \in LinesWhere(LAMBDA l : IsFailedLine(l, 2)) : i < j

\* check 2 logged that data is an array and then failed on its being empty
C9_Witness ==
  /\ test = 2
  /\ settled = "rejected"
  /\ LinesWhere(IsArrayLine) # {}
  /\ LinesWhere(LAMBDA l : IsFailedLine(l, 2)) # {}

====
